---- MODULE Spec2Model ----
(***************************************************************************)
(* hlsdump: the manifest-driven download engine of package hls.            *)
(* One rendition (stream) is a poller goroutine (playlistWorker) and a     *)
(* downloader (downloadWorker, run by dump) joined by a buffered channel.  *)
(* The orchestrator (Dumper.Start / startAll / start) runs one dump per    *)
(* stream and Dumper.Stop requests a cooperative stop.                     *)
(***************************************************************************)
EXTENDS Integers, Sequences, FiniteSets, TLC

\* ------------------------------------------------------------------ bounds
\* number of streams loadMaster may resolve
MaxStreams == 2
\* highest segment sequence number the server's manifests contain
MaxSeq == 2
\* longest segment body served, in bytes
MaxBody == 2
\* consecutive failed tries of one segment the environment produces
MaxTry == 2
\* the lines of a master playlist after the first
MaxLines == 4

\* ------------------------------------------------------- program constants
\* make(chan *segment, 64)
QueueCap == 64
\* 64<<min(try, 4) milliseconds
BackoffBase == 64
BackoffShift == 4

Streams == 1..MaxStreams

\* ------------------------------------------------------------------ errors
\* An error value: nil, or a message with the fatalError wrapper's fields.
nil == [msg |-> "nil", fatal |-> FALSE, client |-> FALSE]

Err(m) == [msg |-> m, fatal |-> FALSE, client |-> FALSE]

\* A faulty wrapper: the error is passed on as it is.
fatalUnwrapped(err) == err

\* fatal(err): nil stays nil, anything else is wrapped as fatalError{error: err}
fatal(err) == IF err = nil THEN nil ELSE [msg |-> err.msg, fatal |-> TRUE, client |-> FALSE]

\* A faulty httpResponseStatusError: the server errors are the fatal ones.
httpResponseStatusErrorServer(code) ==
    IF code >= 500 THEN [msg |-> "status", fatal |-> TRUE, client |-> FALSE] ELSE Err("status")

\* httpResponseStatusError(resp): 4xx except 429 is fatalError{err, false}
httpResponseStatusError(code) ==
    IF code >= 400 /\ code < 500 /\ code # 429
    THEN [msg |-> "status", fatal |-> TRUE, client |-> FALSE]
    ELSE Err("status")

\* min(a, b uint) uint
min(a, b) == IF a < b THEN a ELSE b

RECURSIVE shl(_, _)
shl(x, n) == IF n = 0 THEN x ELSE shl(2 * x, n - 1)

\* the delay processSegment sleeps after try failures: 64<<min(try, 4) ms
backoff(try) == shl(BackoffBase, min(try, BackoffShift))

errMissingTargetDuration == fatal(Err("missing EXT-X-TARGETDURATION"))
errOffsetFirstSegment == Err("offset must be in first segment")
errNoStreamsFound == Err("no streams found")

\* --------------------------------------------------- output manifest lines
\* A line of text: a prefix (empty or the skip marker), the tag or kind of
\* line, a title, and up to two numbers.
Line(p, k, t, x, y) == [p |-> p, k |-> k, t |-> t, x |-> x, y |-> y]

SkipPrefix == "# SKIP: "

ExtM3U == Line("", "#EXTM3U", "", 0, 0)
EndList == Line("", "#EXT-X-ENDLIST", "", 0, 0)

\* fmt.Fprintf(w, "#EXT-X-BYTERANGE:%d@%d\n", size, start)
ByteRangeLine(size, start) == Line("", "#EXT-X-BYTERANGE", "", size, start)

\* "# WARNING: Missing sequence %d-%d\n"
MissingLine(from, to) == Line("", "# WARNING: Missing sequence", "", from, to)

\* the name of the file a segment is stored in: name.ts, or name-<sequence>.ts
SingleName == -1

\* writeLine(w, path.Base(outputFile.Name()))
FileLine(name) == Line("", "file", "", name, 0)

\* strings.ReplaceAll(comments[:cl-1], "\n", "\n# SKIP: ") after "# SKIP: "
skipLines(comments) ==
    [i \in 1..Len(comments) |-> [comments[i] EXCEPT !.p = SkipPrefix]]

\* ------------------------------------------------- what the server serves
\* Tag lines of a segment's run.  A BYTERANGE tag carries its length in x and
\* its offset in y, NoOffset when the "@offset" part is omitted.
NoOffset == -1

ExtInf(title) == Line("", "#EXTINF", title, 1, 0)
Gap == Line("", "#EXT-X-GAP", "", 0, 0)
ByteRange(l, o) == Line("", "#EXT-X-BYTERANGE", "", l, o)

\* The tag runs (one per segment URI line) the served manifests are made of.
Entries ==
    { <<ExtInf("a")>>,
      <<ExtInf("b")>>,
      <<ExtInf("a"), Gap>>,
      <<ExtInf("a"), ByteRange(MaxBody, 0)>>,
      <<ExtInf("a"), Gap, ByteRange(MaxBody, 0)>>,
      <<ExtInf("a"), ByteRange(MaxBody, 0), Gap>> }

\* A response to a playlist request: the status code (0: the transport
\* failed), whether the body starts with #EXTM3U, EXT-X-TARGETDURATION (0:
\* absent), EXT-X-MEDIA-SEQUENCE (0 also when absent), EXT-X-PLAYLIST-TYPE:VOD,
\* the number of segments and a closing EXT-X-ENDLIST.  The tag run of each
\* segment is read when parseSegments comes to it.
Manifest(code, marker, td, mseq, vod, segs, endlist) ==
    [code |-> code, marker |-> marker, td |-> td, mseq |-> mseq, vod |-> vod,
     segs |-> segs, endlist |-> endlist]

\* Well-formed manifests whose window starts at a sequence number in mseqs.
Windows(mseqs) ==
    { m \in { Manifest(200, TRUE, 2, mseq, vod, segs, endlist) :
                mseq \in mseqs, vod \in BOOLEAN, segs \in 0..(MaxSeq + 1),
                endlist \in BOOLEAN } :
        m.mseq + m.segs <= MaxSeq + 1 }

\* A line of the document at Dumper.URL: its tag (k), the attribute list of an
\* EXT-X-STREAM-INF or EXT-X-MEDIA tag as parseAttributeList returns it (valid:
\* not nil; an attribute that is absent reads as ""), and the text of a line
\* that is no tag.
NoAttr == [VIDEO |-> "", AUDIO |-> "", SUBTITLES |-> "", CLOSEDCAPTIONS |-> ""]

MasterLine(k, valid, attr, uri) == [k |-> k, valid |-> valid, attr |-> attr, uri |-> uri]

Marker == MasterLine("#EXTM3U", TRUE, NoAttr, "")
Blank == MasterLine("", TRUE, NoAttr, "")
Comment == MasterLine("#", TRUE, NoAttr, "")
Version == MasterLine("#EXT-X-VERSION", TRUE, NoAttr, "")
Media == MasterLine("#EXT-X-MEDIA", TRUE, NoAttr, "")
StreamInf(attr) == MasterLine("#EXT-X-STREAM-INF", TRUE, attr, "")
BadStreamInf == MasterLine("#EXT-X-STREAM-INF", FALSE, NoAttr, "")
TargetDuration == MasterLine("#EXT-X-TARGETDURATION", TRUE, NoAttr, "")
Inf == MasterLine("#EXTINF", TRUE, NoAttr, "")
Uri(u) == MasterLine("uri", TRUE, NoAttr, u)

\* the master playlist of n variant streams, each in the group "hi"
RECURSIVE Variants(_)
Variants(n) ==
    IF n = 0 THEN <<Marker>>
    ELSE Variants(n - 1) \o <<StreamInf([NoAttr EXCEPT !.VIDEO = "hi"]), Uri("a")>>

\* ------------------------------------------------------------------- state
VARIABLES
    SingleFile,  \* Dumper.SingleFile
    Titles,      \* Dumper.Titles
    Groups,      \* Dumper.Groups
    master,      \* the lines of the document the server holds at Dumper.URL
    jobs,        \* d.streams: the name and the playlist URL of each stream
    streams,     \* len(d.streams); -1 until loadMaster has run
    stop,        \* Dumper.stop
    dumper,      \* Start and startAll: pc, the shared err of startAll, the result
    starter,     \* per stream, the pc of the goroutine running stream.start
    playlist,    \* per stream, stream.playlist
    output,      \* per stream, stream.output: offset, sequence, queue.sequence
    queue,       \* per stream, the contents of output.queue.c
    closed,      \* per stream, whether output.queue.c is closed
    poller,      \* per stream, the goroutine running playlistWorker and its locals
    worker,      \* per stream, dump and downloadWorker: pc, locals, and dump's result
    files,       \* per stream, the segment files: name -> bytes
    fpos,        \* per stream, the write position of output.file
    out,         \* per stream, the lines flushed to the output playlist file
    hist         \* per stream, a record of what happened (no code reads it): the
                 \* sequence numbers enqueued and emitted, those requested, the
                 \* playlist fetches (counted up to 2), the EXT-X-MEDIA-SEQUENCE
                 \* of the last manifest read, the delays slept for the
                 \* last segment taken, what fetching that segment at once,
                 \* without a failure, makes of the output, whether Stop
                 \* has marked the stream inactive, whether an EXT-X-BYTERANGE
                 \* of the fetch under way has given an offset, and the offset
                 \* and the length that the EXT-X-BYTERANGE of the segment read
                 \* last in that fetch stand for, and the sequence number of
                 \* the segment whose entry, fetched or skipped, was appended
                 \* to the output playlist last (-1: none yet)

vars == <<SingleFile, Titles, Groups, master, jobs, streams, stop, dumper, starter, playlist, output,
          queue, closed, poller, worker, files, fpos, out, hist>>

\* no outcome recorded: the worker has taken no segment that is to be fetched
NoFirst == [files |-> << >>, fpos |-> 0, offset |-> 0, sequence |-> 0, out |-> <<>>]

\* no EXT-X-BYTERANGE read: neither an offset nor a length
NoByteRange == [offset |-> -1, length |-> -1]

\* a segment that is no segment: the worker holds none
NoSegment == [sequence |-> -1, duration |-> 0, length |-> -1, offset |-> -1, comments |-> <<>>]

\* The state after the Dumper is constructed by main, with the configuration
\* drawn from the given sets.
InitWith(singleFiles, titleLists, groupLists, masters) ==
    /\ SingleFile \in singleFiles
    /\ Titles \in titleLists
    /\ Groups \in groupLists
    /\ master \in masters
    /\ jobs = <<>>
    /\ streams = -1
    /\ stop = FALSE
    /\ dumper = [pc |-> "Start", err |-> nil, ret |-> nil]
    /\ starter = [r \in Streams |-> "idle"]
    /\ playlist = [r \in Streams |->
            [writer |-> "nil", sequence |-> 0, targetDuration |-> 0,
             lastDuration |-> 0, active |-> FALSE, err |-> nil]]
    /\ output = [r \in Streams |-> [offset |-> 0, sequence |-> 0, qsequence |-> 0]]
    /\ queue = [r \in Streams |-> <<>>]
    /\ closed = [r \in Streams |-> FALSE]
    /\ poller = [r \in Streams |->
            [pc |-> "idle", err |-> nil, segs |-> 0, endlist |-> FALSE,
             sequence |-> 0, offset |-> -1]]
    /\ worker = [r \in Streams |->
            [pc |-> "idle", err |-> nil, ret |-> nil, seg |-> NoSegment, try |-> 0,
             body |-> 0]]
    /\ files = [r \in Streams |-> << >>]
    /\ fpos = [r \in Streams |-> 0]
    /\ out = [r \in Streams |-> <<>>]
    /\ hist = [r \in Streams |->
            [enqueued |-> <<>>, emitted |-> <<>>, requested |-> {}, fetches |-> 0,
             mseq |-> 0, slept |-> <<>>, first |-> NoFirst, stopped |-> FALSE,
             given |-> FALSE, prev |-> NoByteRange, last |-> -1]]

\* ------------------------------------------------------------------ poller
\* What parseHeader echoes on the first pass: the marker line, then the other
\* header lines of the manifest, verbatim, taken as one block.
headerLines(m) == <<ExtM3U, Line("", "header", "", 0, 0)>>

\* playlist.flush(&err) after writing lines: the buffered lines reach the file
\* or the flush fails, and a failure becomes the error when there was none.
flush(lines, err, wok) ==
    [lines |-> IF wok THEN lines ELSE <<>>,
     err |-> IF ~wok /\ err = nil THEN fatal(Err("write")) ELSE err,
     writer |-> IF wok THEN "ok" ELSE "failed"]

\* A faulty check: the stored base follows the manifest wherever it goes.
mediaSequenceReset(p, sequence) ==
    [playlist |-> [p EXCEPT !.sequence = sequence], err |-> nil]

\* parseHeader's check of EXT-X-MEDIA-SEQUENCE against the stored base
mediaSequence(p, sequence) ==
    IF sequence > p.sequence
    THEN [playlist |-> [p EXCEPT !.sequence = sequence], err |-> nil]
    ELSE IF sequence # p.sequence
    THEN [playlist |-> p, err |-> fatal(Err("media sequence number decreased"))]
    ELSE [playlist |-> p, err |-> nil]

\* parseHeader on playlist state p and response body m: the new playlist state,
\* the lines echoed to the output playlist and the error.
parseHeader(p, m, wok) ==
    IF ~m.marker THEN [playlist |-> p, lines |-> <<>>, err |-> Err("does not start with #EXTM3U")]
    ELSE
    LET initial == p.writer = "nil"
        p1 == [p EXCEPT !.active = IF ~initial /\ m.vod THEN FALSE ELSE @]
        targetDuration == m.td * 1000
        sequence == m.mseq
        p2 == IF p1.targetDuration = 0
              THEN (IF targetDuration > 0 THEN [p1 EXCEPT !.targetDuration = targetDuration] ELSE p1)
              ELSE (IF p1.targetDuration # targetDuration /\ targetDuration > 0
                    THEN [p1 EXCEPT !.targetDuration = targetDuration] ELSE p1)
        res == IF p1.targetDuration = 0 /\ ~(targetDuration > 0)
               THEN [playlist |-> p1, err |-> errMissingTargetDuration]
               ELSE mediaSequence(p2, sequence)
        fl == IF initial THEN flush(headerLines(m), res.err, wok)
              ELSE [lines |-> <<>>, err |-> res.err, writer |-> p.writer]
    IN  [playlist |-> [res.playlist EXCEPT !.writer = fl.writer],
         lines |-> fl.lines, err |-> fl.err]

\* A faulty EXT-X-BYTERANGE case: an omitted offset is always accepted.
extXByteRangeLenient(acc, t) ==
    IF t.y # NoOffset THEN [acc EXCEPT !.length = t.x, !.offset = t.y]
    ELSE [acc EXCEPT !.length = t.x]

\* parseSegments, case "EXT-X-BYTERANGE" of its switch
extXByteRange(acc, t) ==
    IF t.y # NoOffset THEN [acc EXCEPT !.length = t.x, !.offset = t.y]
    ELSE IF acc.offset = -1
    THEN [acc EXCEPT !.length = t.x, !.err = errOffsetFirstSegment]
    ELSE [acc EXCEPT !.length = t.x]

\* the EXT-X-BYTERANGE lines of a run, whether one of them gives an offset,
\* and the length the last of them declares
byteRangesOf(tags) == SelectSeq(tags, LAMBDA t : t.k = "#EXT-X-BYTERANGE")

givesOffset(tags) == \E i \in DOMAIN tags : tags[i].k = "#EXT-X-BYTERANGE" /\ tags[i].y # NoOffset

declaredLength(tags) ==
    IF byteRangesOf(tags) = <<>> THEN -1 ELSE byteRangesOf(tags)[Len(byteRangesOf(tags))].x

\* The tag lines of one segment's run, as parseSegments reads them in order:
\* acc holds the locals length, offset, duration, title and err.
RECURSIVE scanTags(_, _)
scanTags(tags, acc) ==
    IF tags = <<>> \/ acc.err # nil THEN acc
    ELSE LET t == Head(tags) IN
         scanTags(Tail(tags),
            CASE t.k = "#EXTINF" -> [acc EXCEPT !.duration = t.x, !.title = t.t]
              [] t.k = "#EXT-X-BYTERANGE" -> extXByteRange(acc, t)
              [] t.k = "#EXT-X-GAP" -> [acc EXCEPT !.length = 0]
              [] OTHER -> acc)

\* the lines parseSegments buffers in comments: every line but EXT-X-BYTERANGE
commentsOf(tags) == SelectSeq(tags, LAMBDA t : t.k # "#EXT-X-BYTERANGE")

\* A faulty exit: the queue is left open.
playlistWorkerReturnOpen(r, p, err) ==
    /\ playlist' = [playlist EXCEPT ![r] = [p EXCEPT !.err = err, !.active = FALSE]]
    /\ closed' = closed
    /\ poller' = [poller EXCEPT ![r] = [@ EXCEPT !.pc = "done", !.err = err, !.segs = 0, !.endlist = FALSE,
                                   !.sequence = 0, !.offset = -1]]

\* playlistWorker after playlistLoop returned err
playlistWorkerReturn(r, p, err) ==
    /\ playlist' = [playlist EXCEPT ![r] = [p EXCEPT !.err = err, !.active = FALSE]]
    /\ closed' = [closed EXCEPT ![r] = TRUE]
    /\ poller' = [poller EXCEPT ![r] = [@ EXCEPT !.pc = "done", !.err = err, !.segs = 0, !.endlist = FALSE,
                                   !.sequence = 0, !.offset = -1]]

\* A faulty loop: every failed fetch ends it.
fetchFailedReturns(r, p, err) == playlistWorkerReturn(r, p, err)

\* playlistLoop after fetchPlaylist returned err # nil
fetchFailed(r, p, err) ==
    IF err.fatal \/ p.lastDuration = 0
    THEN playlistWorkerReturn(r, p, err)
    ELSE /\ playlist' = [playlist EXCEPT ![r] = p]
         /\ poller' = [poller EXCEPT ![r] = [@ EXCEPT !.pc = "loop", !.err = err]]
         /\ UNCHANGED closed

\* playlistLoop finding the stream active at "for s.playlist.active" and after
\* time.Sleep: fetchPlaylist up to the end of parseHeader, the server answering m
fetchPlaylist(r, m, wok) ==
    /\ poller[r].pc = "loop"
    /\ playlist[r].active
    /\ LET p0 == [playlist[r] EXCEPT !.lastDuration = playlist[r].targetDuration \div 2]
           h == parseHeader(p0, m, wok)
       IN  /\ hist' = [hist EXCEPT ![r].fetches = min(@ + 1, 2),
                                   ![r].mseq = IF m.code = 200 /\ m.marker THEN m.mseq ELSE @,
                                   ![r].given = FALSE,
                                   ![r].prev = NoByteRange]
           /\ IF m.code = 0
              THEN fetchFailed(r, p0, Err("transport")) /\ UNCHANGED out
              ELSE IF m.code # 200
              THEN fetchFailed(r, p0, httpResponseStatusError(m.code)) /\ UNCHANGED out
              ELSE /\ out' = [out EXCEPT ![r] = @ \o h.lines]
                   /\ IF h.err # nil
                      THEN fetchFailed(r, h.playlist, h.err)
                      ELSE /\ playlist' = [playlist EXCEPT ![r] = h.playlist]
                           /\ poller' = [poller EXCEPT ![r] =
                                [@ EXCEPT !.pc = "parse", !.segs = m.segs,
                                          !.endlist = m.endlist,
                                          !.sequence = h.playlist.sequence,
                                          !.offset = -1]]
                           /\ UNCHANGED closed
    /\ UNCHANGED <<SingleFile, Titles, Groups, master, jobs, streams, stop, dumper, starter, output, queue,
                   worker, files, fpos>>

\* playlistLoop finding the stream no longer active, at "for s.playlist.active"
\* or after time.Sleep
playlistLoopBreak(r) ==
    /\ poller[r].pc = "loop"
    /\ ~playlist[r].active
    /\ playlistWorkerReturn(r, playlist[r], poller[r].err)
    /\ UNCHANGED <<SingleFile, Titles, Groups, master, jobs, streams, stop, dumper, starter, output, queue,
                   worker, files, fpos, out, hist>>

\* A faulty test: the last segment enqueued counts as new again.
isNewOrSame(sequence, qsequence) == sequence >= qsequence

\* parseSegments: whether the segment at sequence is sent to the queue
isNew(sequence, qsequence) == sequence > qsequence

\* A faulty end of the body: EXT-X-ENDLIST is not acted on.
endOfBodyIgnored(active, endlist) == active

\* parseSegments at the end of the body: playlist.active after EXT-X-ENDLIST
endOfBody(active, endlist) == IF endlist THEN FALSE ELSE active

\* A faulty queue: the send never has to wait.
sendUnbuffered(c) == TRUE

\* "s.output.queue.c <- seg" on the channel made by make(chan *segment, 64):
\* whether the send goes through at once, without waiting for the downloader
send(c) == Len(c) < QueueCap

\* the segment parseSegments sends to the queue
newSegment(sequence, acc, tags) ==
    [sequence |-> sequence, duration |-> acc.duration, length |-> acc.length,
     offset |-> acc.offset, comments |-> commentsOf(tags)]

\* parseSegments: one pass of its loop over a segment's run of lines tags up
\* to the URI line, or the end of the body
parseSegments(r, tags) ==
    /\ poller[r].pc = "parse"
    /\ IF poller[r].segs = 0
       THEN \* the rest of the body: EXT-X-ENDLIST if there is one
            /\ playlist' = [playlist EXCEPT ![r].active = endOfBody(@, poller[r].endlist)]
            /\ poller' = [poller EXCEPT ![r] =
                    [@ EXCEPT !.pc = "loop", !.err = nil, !.endlist = FALSE,
                              !.sequence = 0, !.offset = -1]]
            /\ UNCHANGED <<output, queue, closed, hist>>
       ELSE
       LET sequence == poller[r].sequence
           scanned == scanTags(tags, [length |-> -1, offset |-> poller[r].offset,
                                     duration |-> 0, title |-> "", err |-> nil])
           new == isNew(sequence, output[r].qsequence)
           acc == IF new /\ Titles # {} /\ scanned.title \notin Titles
                  THEN [scanned EXCEPT !.length = 0] ELSE scanned
       IN  IF scanned.err # nil
           THEN /\ playlistWorkerReturn(r, playlist[r], fatal(scanned.err))
                /\ UNCHANGED <<output, queue, hist>>
           ELSE /\ new => send(queue[r])
                /\ queue' = [queue EXCEPT ![r] =
                        IF new THEN Append(@, newSegment(sequence, acc, tags)) ELSE @]
                /\ output' = [output EXCEPT ![r].qsequence = IF new THEN sequence ELSE @]
                /\ hist' = [hist EXCEPT ![r].enqueued = IF new THEN Append(@, sequence) ELSE @,
                                        ![r].given = @ \/ givesOffset(tags),
                                        ![r].prev = [offset |-> scanned.offset,
                                                     length |-> declaredLength(tags)]]
                /\ playlist' = [playlist EXCEPT ![r].lastDuration =
                        IF new /\ acc.duration > 0 THEN acc.duration * 1000 ELSE @]
                /\ poller' = [poller EXCEPT ![r] =
                        [@ EXCEPT !.segs = @ - 1, !.sequence = sequence + 1,
                                  !.offset = IF acc.length > 0
                                             THEN acc.offset + acc.length ELSE acc.offset]]
                /\ UNCHANGED closed
    /\ UNCHANGED <<SingleFile, Titles, Groups, master, jobs, streams, stop, dumper, starter, worker, files,
                   fpos, out>>

\* -------------------------------------------------------------- downloader
\* f with file name holding bytes
withFile(f, name, bytes) ==
    [n \in (DOMAIN f) \cup {name} |-> IF n = name THEN bytes ELSE f[n]]

\* size bytes of the body of segment sequence
bodyOf(sequence, size) == [i \in 1..size |-> sequence]

\* writing bytes at position pos of a file holding old, without truncating it
writeAt(old, pos, bytes) ==
    [i \in 1..(IF pos + Len(bytes) > Len(old) THEN pos + Len(bytes) ELSE Len(old)) |->
        IF i > pos /\ i <= pos + Len(bytes) THEN bytes[i - pos] ELSE old[i]]

\* dump up to "go s.playlistWorker()": created tells whether the playlist file
\* could be created
dump(r, created) ==
    /\ worker[r].pc = "dump"
    /\ playlist' = [playlist EXCEPT ![r].active = TRUE]
    /\ output' = [output EXCEPT ![r].qsequence = -1]
    /\ IF created
       THEN /\ poller' = [poller EXCEPT ![r].pc = "loop"]
            /\ worker' = [worker EXCEPT ![r].pc = "downloadWorker"]
       ELSE /\ worker' = [worker EXCEPT ![r] = [@ EXCEPT !.pc = "done", !.ret = Err("create")]]
            /\ UNCHANGED poller
    /\ UNCHANGED <<SingleFile, Titles, Groups, master, jobs, streams, stop, dumper, starter, queue, closed,
                   files, fpos, out, hist>>

\* downloadWorker returning err to dump
downloadWorkerReturn(r, err, h) ==
    /\ worker' = [worker EXCEPT ![r] = [@ EXCEPT !.pc = "dumpTail", !.err = err,
                                                 !.seg = NoSegment, !.try = 0, !.body = 0]]
    /\ hist' = [hist EXCEPT ![r] = h]

\* downloadWorker up to its loop: created tells whether the single output file
\* could be created
downloadWorker(r, created) ==
    /\ worker[r].pc = "downloadWorker"
    /\ IF SingleFile /\ ~created
       THEN downloadWorkerReturn(r, Err("create"), hist[r]) /\ UNCHANGED <<files, fpos>>
       ELSE /\ files' = [files EXCEPT ![r] = IF SingleFile THEN withFile(@, SingleName, <<>>) ELSE @]
            /\ fpos' = [fpos EXCEPT ![r] = 0]
            /\ IF stop
               THEN downloadWorkerReturn(r, nil, hist[r])
               ELSE /\ worker' = [worker EXCEPT ![r].pc = "range"]
                    /\ UNCHANGED hist
    /\ UNCHANGED <<SingleFile, Titles, Groups, master, jobs, streams, stop, dumper, starter, playlist, output,
                   queue, closed, poller, out>>

\* downloadWorker when the queue is closed and drained
rangeClosed(r) ==
    /\ worker[r].pc = "range"
    /\ queue[r] = <<>>
    /\ closed[r]
    /\ downloadWorkerReturn(r, worker[r].err, hist[r])
    /\ UNCHANGED <<SingleFile, Titles, Groups, master, jobs, streams, stop, dumper, starter, playlist, output,
                   queue, closed, poller, files, fpos, out>>

\* checkMissingSegments: the new output.sequence and the warning line, if any
checkMissingSegments(sequence, seg) ==
    [sequence |-> seg.sequence,
     lines |-> IF sequence # 0 /\ sequence + 1 # seg.sequence
               THEN <<MissingLine(sequence + 1, seg.sequence - 1)>> ELSE <<>>]

\* downloadWorker after processSegment returned err
processed(r, err, h) ==
    IF err # nil /\ err.fatal /\ ~err.client
    THEN downloadWorkerReturn(r, err, h)
    ELSE /\ worker' = [worker EXCEPT ![r] = [@ EXCEPT !.pc = "range", !.err = err,
                                                      !.seg = NoSegment, !.try = 0,
                                                      !.body = 0]]
         /\ hist' = [hist EXCEPT ![r] = h]

\* processSegment of a segment of length 0: processSkippedSegment
processSkippedSegment(r, wok) ==
    /\ worker[r].pc = "processSegment"
    /\ worker[r].seg.length = 0
    /\ LET seg == worker[r].seg
           missing == checkMissingSegments(output[r].sequence, seg)
           fl == flush(missing.lines \o skipLines(seg.comments), nil,
                       wok /\ playlist[r].writer = "ok")
       IN  IF Len(seg.comments) > 0
           THEN /\ output' = [output EXCEPT ![r].sequence = missing.sequence]
                /\ out' = [out EXCEPT ![r] = @ \o fl.lines]
                /\ playlist' = [playlist EXCEPT ![r].writer = fl.writer]
                /\ processed(r, fatal(fl.err),
                             [hist[r] EXCEPT !.last = IF fl.err = nil THEN seg.sequence ELSE @])
           ELSE /\ processed(r, nil, hist[r])
                /\ UNCHANGED <<output, out, playlist>>
    /\ UNCHANGED <<SingleFile, Titles, Groups, master, jobs, streams, stop, dumper, starter, queue, closed,
                   poller, files, fpos>>

\* The answers to a segment request: status codes (0: the transport failed) and
\* what goes wrong on the local side.
Codes == {0, 200, 206, 404, 429, 503}
Faults == {"none", "create", "copy", "seek"}

\* What happens to one segment request: the status code; the local fault, with
\* the number of bytes copied before it; whether the playlist writes succeed.
Answers(codes, faults, writes) ==
    { [code |-> c, fault |-> "none", copied |-> 0, wok |-> w] : c \in codes, w \in writes }
    \cup { [code |-> c, fault |-> f, copied |-> k, wok |-> TRUE] :
             c \in codes \cap {200, 206}, f \in faults \ {"none"}, k \in 0..(MaxBody - 1) }

\* downloadSegment: the status a request for seg must be answered with
expectedStatus(seg) == IF seg.length >= 0 /\ seg.offset >= 0 THEN 206 ELSE 200

\* A faulty recovery: the file is left where the failed copy stopped.
afterCopyErrorNoSeek(offset, pos, copied, fault) == pos + copied

\* A faulty recovery: the file is sought back to its start.
afterCopyErrorToStart(offset, pos, copied, fault) ==
    IF fault = "seek" THEN pos + copied ELSE 0

\* downloadSegment after io.Copy failed in single-file mode: the write position
\* of the output file, sought back to offset unless the Seek fails too
afterCopyError(offset, pos, copied, fault) ==
    IF fault = "seek" THEN pos + copied ELSE offset

\* A faulty accounting: s.output.offset = size
advanceTo(offset, size) == size

\* downloadSegment: s.output.offset += size
advance(offset, size) == offset + size

\* One call of downloadSegment for segment seg of body size with answer a: the
\* server answers a.code; a.fault "create": the segment file cannot be created,
\* "copy": io.Copy fails after a.copied bytes, "seek": so does the Seek back;
\* a.wok: the playlist writes reach the file.  Yields err and the new files,
\* write position, output state, playlist lines and writer state.
downloadSegmentResult(r, seg, size, a) ==
    LET code == a.code
        fault == a.fault
        copied == a.copied
        wok == a.wok
        name == IF SingleFile THEN SingleName ELSE seg.sequence
        same == [err |-> nil, files |-> files[r], fpos |-> fpos[r], output |-> output[r],
                 lines |-> <<>>, writer |-> playlist[r].writer]
        old == IF SingleFile THEN files[r][SingleName] ELSE <<>>
        pos == IF SingleFile THEN fpos[r] ELSE 0
    IN  IF code = 0 THEN [same EXCEPT !.err = Err("transport")]
        ELSE IF code # expectedStatus(seg) THEN [same EXCEPT !.err = httpResponseStatusError(code)]
        ELSE IF ~SingleFile /\ fault = "create" THEN [same EXCEPT !.err = Err("create")]
        ELSE IF fault \in {"copy", "seek"}
        THEN [same EXCEPT
                !.files = withFile(@, name, writeAt(old, pos, bodyOf(seg.sequence, copied))),
                !.fpos = IF ~SingleFile THEN @
                         ELSE afterCopyError(output[r].offset, pos, copied, fault),
                !.err = IF SingleFile /\ fault = "seek"
                        THEN fatal(Err("copy")) ELSE Err("copy")]
        ELSE
        LET start == output[r].offset
            missing == checkMissingSegments(output[r].sequence, seg)
            lines == missing.lines \o seg.comments
                     \o (IF SingleFile THEN <<ByteRangeLine(size, start)>> ELSE <<>>)
                     \o <<FileLine(name)>>
            fl == flush(lines, nil, wok /\ playlist[r].writer = "ok")
        IN  [err |-> fl.err,
             files |-> withFile(files[r], name, writeAt(old, pos, bodyOf(seg.sequence, size))),
             fpos |-> IF SingleFile THEN pos + size ELSE fpos[r],
             output |-> [output[r] EXCEPT !.offset = advance(start, size),
                                          !.sequence = missing.sequence],
             lines |-> fl.lines,
             writer |-> fl.writer]

\* the answer to a request for seg with which nothing fails
succeeds(seg) == [code |-> expectedStatus(seg), fault |-> "none", copied |-> 0, wok |-> TRUE]

\* what fetching seg of body size at once makes of the files, the write
\* position, the output state and the output playlist
firstTry(r, seg, size) ==
    IF seg.length = 0 THEN NoFirst
    ELSE LET res == downloadSegmentResult(r, seg, size, succeeds(seg))
         IN  [files |-> res.files, fpos |-> res.fpos, offset |-> res.output.offset,
              sequence |-> res.output.sequence, out |-> out[r] \o res.lines]

\* downloadWorker at "for seg := range s.output.queue.c" with a segment queued;
\* size is the length of the body the server holds for it
rangeQueue(r, size) ==
    /\ worker[r].pc = "range"
    /\ queue[r] # <<>>
    /\ queue' = [queue EXCEPT ![r] = Tail(@)]
    /\ IF stop
       THEN downloadWorkerReturn(r, worker[r].err, hist[r])
       ELSE /\ worker' = [worker EXCEPT ![r] =
                    [@ EXCEPT !.pc = "processSegment", !.seg = Head(queue[r]), !.try = 0,
                              !.body = IF Head(queue[r]).length = 0 THEN 0 ELSE size]]
            /\ hist' = [hist EXCEPT ![r] =
                    [@ EXCEPT !.slept = <<>>, !.first = firstTry(r, Head(queue[r]), size)]]
    /\ UNCHANGED <<SingleFile, Titles, Groups, master, jobs, streams, stop, dumper, starter, playlist, output,
                   closed, poller, files, fpos, out>>

\* processSegment: one pass of its loop, downloadSegment and what follows it up
\* to time.Sleep
downloadSegment(r, a) ==
    /\ worker[r].pc = "processSegment"
    /\ worker[r].seg.length # 0
    /\ a.copied < worker[r].body
    /\ LET res == downloadSegmentResult(r, worker[r].seg, worker[r].body, a)
           try == worker[r].try + 1
           h == [hist[r] EXCEPT !.requested = @ \cup {worker[r].seg.sequence}]
       IN  /\ files' = [files EXCEPT ![r] = res.files]
           /\ fpos' = [fpos EXCEPT ![r] = res.fpos]
           /\ output' = [output EXCEPT ![r] = res.output]
           /\ out' = [out EXCEPT ![r] = @ \o res.lines]
           /\ playlist' = [playlist EXCEPT ![r].writer = res.writer]
           /\ IF res.err = nil
              THEN processed(r, nil, [h EXCEPT !.emitted = Append(@, worker[r].seg.sequence),
                                               !.last = worker[r].seg.sequence])
              ELSE IF res.err.fatal
              THEN processed(r, res.err, h)
              ELSE /\ worker[r].try < MaxTry
                   /\ worker' = [worker EXCEPT ![r] =
                            [@ EXCEPT !.pc = "backoff", !.try = try, !.err = res.err]]
                   /\ hist' = [hist EXCEPT ![r] =
                            [h EXCEPT !.slept = Append(@, backoff(try))]]
    /\ UNCHANGED <<SingleFile, Titles, Groups, master, jobs, streams, stop, dumper, starter, queue, closed, poller>>

\* processSegment after time.Sleep: give up when stopped, else try again
backoffWake(r) ==
    /\ worker[r].pc = "backoff"
    /\ IF stop
       THEN processed(r, worker[r].err, hist[r])
       ELSE /\ worker' = [worker EXCEPT ![r].pc = "processSegment"]
            /\ UNCHANGED hist
    /\ UNCHANGED <<SingleFile, Titles, Groups, master, jobs, streams, stop, dumper, starter, playlist, output,
                   queue, closed, poller, files, fpos, out>>

\* dump after downloadWorker returned: the closing line of the playlist and
\* the error dump returns
dumpTail(r, wok) ==
    /\ worker[r].pc = "dumpTail"
    /\ LET w == playlist[r].writer
           written == wok /\ w = "ok"
           err1 == IF w = "nil" THEN worker[r].err
                   ELSE IF w = "failed" THEN Err("write") ELSE nil
           err2 == IF err1 = nil THEN playlist[r].err ELSE err1
           fl == IF w = "nil"
                 THEN [lines |-> <<>>, err |-> err2, writer |-> w]
                 ELSE flush(<<EndList>>, err2, written)
       IN  /\ out' = [out EXCEPT ![r] = @ \o fl.lines]
           /\ playlist' = [playlist EXCEPT ![r].writer = fl.writer]
           /\ worker' = [worker EXCEPT ![r] = [@ EXCEPT !.pc = "done", !.ret = fl.err]]
    /\ UNCHANGED <<SingleFile, Titles, Groups, master, jobs, streams, stop, dumper, starter, output, queue,
                   closed, poller, files, fpos, hist>>

\* ------------------------------------------------------------ orchestrator
\* the name of a stream: d.Name, or d.Name-i for i > 0
BaseName == 0

\* the URL of the master playlist
MasterURL == ""

errInvalidAttributeList == Err("invalid attribute list")
errMixedPlaylist == Err("mixed master/media playlist")

\* A faulty match: the allow-list is not consulted.
matchRenditionsAll(attr) == TRUE

\* Dumper.matchRenditions
matchRenditions(attr) ==
    \/ Groups = {}
    \/ attr.VIDEO \in Groups \/ attr.AUDIO \in Groups
    \/ attr.SUBTITLES \in Groups \/ attr.CLOSEDCAPTIONS \in Groups

\* whether k is in mediaTags or in segmentTags
isMediaTag(k) ==
    k \in {"#EXT-X-TARGETDURATION", "#EXT-X-MEDIA-SEQUENCE", "#EXT-X-DISCONTINUITY-SEQUENCE",
           "#EXT-X-PLAYLIST-TYPE", "#EXT-X-I-FRAMES-ONLY", "#EXTINF", "#EXT-X-BYTERANGE",
           "#EXT-X-DISCONTINUITY", "#EXT-X-KEY", "#EXT-X-MAP", "#EXT-X-PROGRAM-DATE-TIME",
           "#EXT-X-DATERANGE", "#EXT-X-GAP", "#EXT-X-BITRATE", "#EXT-X-ENDLIST"}

\* A faulty shortcut: the scan goes on after the tag of a media playlist.
mediaTagFoundContinues(acc) ==
    IF Len(acc.streams) > 0
    THEN [acc EXCEPT !.err = errMixedPlaylist, !.returned = TRUE]
    ELSE [acc EXCEPT !.streams = <<[name |-> BaseName, url |-> MasterURL]>>]

\* parseMaster at a tag of mediaTags or segmentTags: the document is a media
\* playlist, the one stream of the Dumper, unless streams were found before
mediaTagFound(acc) ==
    IF Len(acc.streams) > 0
    THEN [acc EXCEPT !.err = errMixedPlaylist, !.returned = TRUE]
    ELSE [acc EXCEPT !.streams = <<[name |-> BaseName, url |-> MasterURL]>>,
                     !.returned = TRUE]

\* parseMaster's loop over the lines after the first: acc holds d.streams, the
\* locals matchedStream and i, err, and whether the function has returned
RECURSIVE scanMaster(_, _)
scanMaster(lines, acc) ==
    IF lines = <<>> \/ acc.returned THEN acc
    ELSE LET l == Head(lines) IN
         scanMaster(Tail(lines),
            CASE l.k \in {"", "#"} -> acc
              [] l.k = "uri" ->
                    IF acc.matchedStream
                    THEN [acc EXCEPT !.i = @ + 1, !.matchedStream = FALSE,
                                     !.streams = Append(@, [name |-> acc.i + 1, url |-> l.uri])]
                    ELSE acc
              [] l.k = "#EXT-X-MEDIA" ->
                    IF ~l.valid THEN [acc EXCEPT !.err = errInvalidAttributeList, !.returned = TRUE]
                    ELSE acc
              [] l.k = "#EXT-X-STREAM-INF" ->
                    IF ~l.valid THEN [acc EXCEPT !.err = errInvalidAttributeList, !.returned = TRUE]
                    ELSE IF matchRenditions(l.attr) THEN [acc EXCEPT !.matchedStream = TRUE]
                    ELSE acc
              [] isMediaTag(l.k) -> mediaTagFound(acc)
              [] OTHER -> acc)

\* Dumper.parseMaster on the lines of the document: d.streams and err
parseMaster(lines) ==
    IF lines = <<>> THEN [streams |-> <<>>, err |-> Err("EOF")]
    ELSE IF Head(lines) # Marker
    THEN [streams |-> <<>>, err |-> Err("does not start with #EXTM3U")]
    ELSE LET acc == scanMaster(Tail(lines),
                        [streams |-> <<>>, matchedStream |-> FALSE, i |-> 0, err |-> nil,
                         returned |-> FALSE])
         IN  [streams |-> acc.streams, err |-> acc.err]

\* Dumper.Start: fetchMaster fails, or parseMaster fails or resolves n streams;
\* then the switch on len(d.streams), startAll up to wg.Wait included
Start(loaded, n) ==
    /\ dumper.pc = "Start"
    /\ IF ~loaded
       THEN /\ dumper' = [dumper EXCEPT !.pc = "done", !.ret = Err("load")]
            /\ UNCHANGED <<jobs, streams, starter, worker>>
       ELSE IF parseMaster(master).err # nil
       THEN /\ dumper' = [dumper EXCEPT !.pc = "done", !.ret = parseMaster(master).err]
            /\ jobs' = parseMaster(master).streams
            /\ UNCHANGED <<streams, starter, worker>>
       ELSE /\ n = Len(parseMaster(master).streams)
            /\ jobs' = parseMaster(master).streams
            /\ streams' = n
            /\ dumper' = CASE n = 0 -> [dumper EXCEPT !.pc = "done", !.ret = errNoStreamsFound]
                           [] n = 1 -> [dumper EXCEPT !.pc = "dump"]
                           [] OTHER -> [dumper EXCEPT !.pc = "Wait"]
            /\ worker' = [r \in Streams |->
                    IF r <= n THEN [worker[r] EXCEPT !.pc = "dump"] ELSE worker[r]]
            /\ starter' = [r \in Streams |-> IF n > 1 /\ r <= n THEN "start" ELSE starter[r]]
    /\ UNCHANGED <<SingleFile, Titles, Groups, master, stop, playlist, output, queue, closed, poller,
                   files, fpos, out, hist>>

\* Start, case 1: d.streams[0].dump() has returned
StartReturn ==
    /\ dumper.pc = "dump"
    /\ worker[1].pc = "done"
    /\ dumper' = [dumper EXCEPT !.pc = "done", !.ret = worker[1].ret]
    /\ UNCHANGED <<SingleFile, Titles, Groups, master, jobs, streams, stop, starter, playlist, output, queue,
                   closed, poller, worker, files, fpos, out, hist>>

\* stream.start after dump returned: the test *erro == nil
startCheck(r) ==
    /\ starter[r] = "start"
    /\ worker[r].pc = "done"
    /\ starter' = [starter EXCEPT ![r] = IF dumper.err = nil THEN "assign" ELSE "done"]
    /\ UNCHANGED <<SingleFile, Titles, Groups, master, jobs, streams, stop, dumper, playlist, output, queue,
                   closed, poller, worker, files, fpos, out, hist>>

\* stream.start: the assignment *erro = err, then wg.Done
startAssign(r) ==
    /\ starter[r] = "assign"
    /\ dumper' = [dumper EXCEPT !.err = worker[r].ret]
    /\ starter' = [starter EXCEPT ![r] = "done"]
    /\ UNCHANGED <<SingleFile, Titles, Groups, master, jobs, streams, stop, playlist, output, queue,
                   closed, poller, worker, files, fpos, out, hist>>

\* startAll after wg.Wait, and Start returning its result
startAllReturn ==
    /\ dumper.pc = "Wait"
    /\ \A r \in 1..streams : starter[r] = "done"
    /\ dumper' = [dumper EXCEPT !.pc = "done", !.ret = dumper.err]
    /\ UNCHANGED <<SingleFile, Titles, Groups, master, jobs, streams, stop, starter, playlist, output, queue,
                   closed, poller, worker, files, fpos, out, hist>>

\* Dumper.Stop, called by the signal handler while Start runs
Stop ==
    /\ dumper.pc # "done"
    /\ playlist' = [r \in Streams |->
            IF r <= streams THEN [playlist[r] EXCEPT !.active = FALSE] ELSE playlist[r]]
    /\ stop' = TRUE
    /\ hist' = [r \in Streams |->
            IF r <= streams THEN [hist[r] EXCEPT !.stopped = TRUE] ELSE hist[r]]
    /\ UNCHANGED <<SingleFile, Titles, Groups, master, jobs, streams, dumper, starter, output, queue, closed,
                   poller, worker, files, fpos, out>>

\* ----------------------------------------------------------- specification
\* What the world around the program does in a run: the responses to playlist
\* requests, the tag runs of the segments, the sizes of the segment bodies, the
\* answers to segment requests, whether writes to the playlist file succeed and
\* whether files can be created.
Env(manifests, entries, sizes, answers, writes, creates) ==
    [manifests |-> manifests, entries |-> entries, sizes |-> sizes, answers |-> answers,
     writes |-> writes, creates |-> creates]

Poller(r, e) ==
    \/ playlistLoopBreak(r)
    \/ \E m \in e.manifests, wok \in e.writes : fetchPlaylist(r, m, wok)
    \/ \E tags \in e.entries : parseSegments(r, tags)

Worker(r, e) ==
    \/ \E created \in e.creates : dump(r, created)
    \/ \E created \in e.creates : downloadWorker(r, created)
    \/ \E size \in e.sizes : rangeQueue(r, size)
    \/ rangeClosed(r)
    \/ \E wok \in e.writes : processSkippedSegment(r, wok)
    \/ \E a \in e.answers : downloadSegment(r, a)
    \/ \E wok \in e.writes : dumpTail(r, wok)

Starter(r) == startCheck(r) \/ startAssign(r)

\* Well-formed manifests of a playlist that is complete when first fetched.
Complete == { m \in Windows({0}) : m.endlist /\ ~m.vod }

\* The whole program, every stream with a playlist of at most one segment that
\* is served complete or not at all; segment requests succeed, or fail with a
\* client or a server error.
World ==
    Env({ m \in Complete : m.segs <= 1 } \cup { Manifest(404, FALSE, 0, 0, FALSE, 0, FALSE) },
        { <<ExtInf("a")>>, <<ExtInf("a"), Gap>> }, {1},
        Answers({200, 404, 503}, {"none"}, {TRUE}), {TRUE}, {TRUE})

\* the master playlists of up to MaxStreams variant streams
Masters == { Variants(n) : n \in 0..MaxStreams }

\* a media playlist at Dumper.URL: one stream
Single == { <<Marker, TargetDuration>> }

Init == InitWith({FALSE}, { {} }, { {} }, Masters)

InitSingle == InitWith({FALSE}, { {} }, { {} }, Single)

Next ==
    \/ \E loaded \in BOOLEAN, n \in 0..MaxStreams : Start(loaded, n)
    \/ StartReturn
    \/ startAllReturn
    \/ Stop
    \/ \E r \in Streams : Poller(r, World) \/ Worker(r, World) \/ backoffWake(r) \/ Starter(r)

Spec == Init /\ [][Next]_vars

\* The same with no stop requested, every playlist with one segment, and
\* segment requests that succeed or fail with a client error.
AllWorld ==
    Env({ m \in Complete : m.segs = 1 } \cup { Manifest(404, FALSE, 0, 0, FALSE, 0, FALSE) },
        { <<ExtInf("a")>>, <<ExtInf("a"), Gap>> }, {1},
        Answers({200, 404}, {"none"}, {TRUE}), {TRUE}, {TRUE})

NextAll ==
    \/ \E loaded \in BOOLEAN, n \in 0..MaxStreams : Start(loaded, n)
    \/ StartReturn
    \/ startAllReturn
    \/ \E r \in Streams : Poller(r, AllWorld) \/ Worker(r, AllWorld) \/ Starter(r)

SpecAll == Init /\ [][NextAll]_vars

\* One stream whose playlist is reloaded over every window; segment requests
\* succeed or fail with a server error.
ReloadWorld ==
    Env(Windows(0..MaxSeq) \cup { Manifest(503, FALSE, 0, 0, FALSE, 0, FALSE) },
        { <<ExtInf("a")>>, <<ExtInf("a"), Gap>> }, {1},
        Answers({200, 503}, {"none"}, {TRUE}), {TRUE}, {TRUE})

NextReload ==
    \/ \E loaded \in BOOLEAN, n \in 0..1 : Start(loaded, n)
    \/ StartReturn
    \/ Poller(1, ReloadWorld) \/ Worker(1, ReloadWorld) \/ backoffWake(1)

SpecReload == InitSingle /\ [][NextReload]_vars

\* One stream with a complete playlist of segments of every kind, with and
\* without a title allow-list; segment requests succeed or fail with a server
\* error.
SkipWorld ==
    Env(Complete, Entries, {1}, Answers({200, 206, 503}, {"none"}, {TRUE}), {TRUE}, {TRUE})

InitSkip == InitWith(BOOLEAN, { {}, {"a"} }, { {} }, Single)

NextSkip ==
    \/ \E loaded \in BOOLEAN, n \in 0..1 : Start(loaded, n)
    \/ StartReturn
    \/ Poller(1, SkipWorld) \/ Worker(1, SkipWorld) \/ backoffWake(1)

SpecSkip == InitSkip /\ [][NextSkip]_vars

\* One stream with a complete playlist of up to two segments, in either output
\* mode; every answer to a segment request and every local fault.
DownloadWorld ==
    Env({ m \in Complete : m.segs <= 2 },
        { <<ExtInf("a")>>, <<ExtInf("a"), ByteRange(MaxBody, 0)>>, <<ExtInf("a"), Gap>> },
        1..MaxBody, Answers(Codes, Faults, BOOLEAN), BOOLEAN, {TRUE})

NextDownload ==
    \/ \E loaded \in BOOLEAN, n \in 0..1 : Start(loaded, n)
    \/ StartReturn
    \/ Poller(1, DownloadWorld) \/ Worker(1, DownloadWorld) \/ backoffWake(1)

InitDownload == InitWith(BOOLEAN, { {} }, { {} }, Single)

SpecDownload == InitDownload /\ [][NextDownload]_vars

\* One stream in single-file mode with a complete playlist; segment requests
\* succeed or fail with a server error.
RangeWorld ==
    Env(Complete, { <<ExtInf("a")>>, <<ExtInf("a"), ByteRange(MaxBody, 0)>>, <<ExtInf("a"), Gap>> },
        1..MaxBody, Answers({200, 206, 503}, {"none"}, {TRUE}), {TRUE}, {TRUE})

InitRange == InitWith({TRUE}, { {} }, { {} }, Single)

NextRange ==
    \/ \E loaded \in BOOLEAN, n \in 0..1 : Start(loaded, n)
    \/ StartReturn
    \/ Poller(1, RangeWorld) \/ Worker(1, RangeWorld) \/ backoffWake(1)

SpecRange == InitRange /\ [][NextRange]_vars

\* One stream whose playlist is a complete VOD playlist when first fetched; no
\* stop is requested and every segment request succeeds.  The goroutines of the
\* poller and of the downloader are each scheduled as long as they can run.
VODWorld ==
    Env({ m \in Windows(0..MaxSeq) : m.vod /\ m.endlist },
        { <<ExtInf("a")>>, <<ExtInf("a"), Gap>> }, 1..MaxBody,
        Answers({200}, {"none"}, {TRUE}), {TRUE}, {TRUE})

NextVOD ==
    \/ \E loaded \in BOOLEAN, n \in 0..1 : Start(loaded, n)
    \/ StartReturn
    \/ Poller(1, VODWorld) \/ Worker(1, VODWorld)

SpecVOD ==
    /\ InitDownload
    /\ [][NextVOD]_vars
    /\ WF_vars(Poller(1, VODWorld))
    /\ WF_vars(Worker(1, VODWorld))
    /\ WF_vars(StartReturn)

\* One stream whose playlist is live or complete and is reloaded, while a stop
\* may be requested at any point; playlist requests succeed, with a playlist
\* or with a body that is none, or fail with a server or a client error;
\* segment requests succeed or fail with a server error.  The goroutines of the poller and of the
\* downloader are each scheduled as long as they can run, and a sleeping one
\* wakes up.
StopWorld ==
    Env({ m \in Windows({0}) : m.segs <= 1 }
          \cup { Manifest(c, FALSE, 0, 0, FALSE, 0, FALSE) : c \in {200, 404, 503} },
        { <<ExtInf("a")>>, <<ExtInf("a"), Gap>> }, {1},
        Answers({200, 503}, {"none"}, {TRUE}), {TRUE}, {TRUE})

NextStop ==
    \/ \E loaded \in BOOLEAN, n \in 0..1 : Start(loaded, n)
    \/ StartReturn
    \/ Stop
    \/ Poller(1, StopWorld) \/ Worker(1, StopWorld) \/ backoffWake(1)

SpecStop ==
    /\ InitSingle
    /\ [][NextStop]_vars
    /\ WF_vars(Poller(1, StopWorld))
    /\ WF_vars(Worker(1, StopWorld))
    /\ WF_vars(backoffWake(1))
    /\ WF_vars(\E loaded \in BOOLEAN, n \in 0..1 : Start(loaded, n))
    /\ WF_vars(StartReturn)

\* The same with no stop requested and no assumption on the scheduling.
NextNoStop ==
    \/ \E loaded \in BOOLEAN, n \in 0..1 : Start(loaded, n)
    \/ StartReturn
    \/ Poller(1, StopWorld) \/ Worker(1, StopWorld) \/ backoffWake(1)

SpecNoStop == InitSingle /\ [][NextNoStop]_vars

\* One stream whose playlist is complete when first fetched and lists one
\* segment more than the queue holds; every segment request succeeds.
LongPlaylist == Manifest(200, TRUE, 2, 0, FALSE, QueueCap + 1, TRUE)

NextQueue ==
    \/ Start(TRUE, 1)
    \/ StartReturn
    \/ dump(1, TRUE)
    \/ fetchPlaylist(1, LongPlaylist, TRUE)
    \/ parseSegments(1, <<ExtInf("a")>>)
    \/ playlistLoopBreak(1)
    \/ downloadWorker(1, TRUE)
    \/ rangeQueue(1, 1)
    \/ downloadSegment(1, [code |-> 200, fault |-> "none", copied |-> 0, wok |-> TRUE])
    \/ rangeClosed(1)
    \/ dumpTail(1, TRUE)

SpecQueue == InitSingle /\ [][NextQueue]_vars

\* The documents at Dumper.URL: nothing, no playlist, or the marker line and
\* up to MaxLines lines of any kind that resolve to at most MaxStreams streams;
\* with and without a group allow-list.  Only Start runs.
RECURSIVE Texts(_, _)
Texts(lines, n) ==
    IF n = 0 THEN { <<>> }
    ELSE Texts(lines, n - 1) \cup { Append(t, l) : t \in Texts(lines, n - 1), l \in lines }

MasterLines ==
    { Comment, Version, Media, BadStreamInf, TargetDuration, Inf, Uri("a"), Uri("b"),
      StreamInf([NoAttr EXCEPT !.VIDEO = "hi"]), StreamInf([NoAttr EXCEPT !.AUDIO = "lo"]) }

Documents ==
    { <<>>, <<Comment>> }
    \cup { d \in { <<Marker>> \o t : t \in Texts(MasterLines, MaxLines) } :
             Len(scanMaster(Tail(d), [streams |-> <<>>, matchedStream |-> FALSE, i |-> 0,
                                      err |-> nil, returned |-> FALSE]).streams) <= MaxStreams }

InitMaster == InitWith({FALSE}, { {} }, { {}, {"hi"} }, Documents)

NextMaster == \E loaded \in BOOLEAN, n \in 0..MaxStreams : Start(loaded, n)

SpecMaster == InitMaster /\ [][NextMaster]_vars

\* One stream with a live playlist of up to two segments that is reloaded;
\* the segments carry EXT-X-BYTERANGE with and without an offset, a title that
\* an allow-list may exclude, or EXT-X-GAP; segment requests are answered 200
\* or 206.
OffsetWorld ==
    Env({ m \in Windows({0}) : ~m.vod /\ m.segs <= 2 },
        { <<ExtInf("a")>>,
          <<ExtInf("a"), ByteRange(MaxBody, 0)>>,
          <<ExtInf("a"), ByteRange(MaxBody, NoOffset)>>,
          <<ExtInf("b"), ByteRange(MaxBody, 0)>>,
          <<ExtInf("a"), ByteRange(MaxBody, 0), Gap>> },
        {1}, Answers({200, 206}, {"none"}, {TRUE}), {TRUE}, {TRUE})

InitOffset == InitWith({FALSE}, { {}, {"a"} }, { {} }, Single)

NextOffset ==
    \/ \E loaded \in BOOLEAN, n \in 0..1 : Start(loaded, n)
    \/ StartReturn
    \/ Poller(1, OffsetWorld) \/ Worker(1, OffsetWorld) \/ backoffWake(1)

SpecOffset == InitOffset /\ [][NextOffset]_vars

\* One stream whose playlist shows one segment at a time, its window anywhere
\* up to sequence number MaxSeq + 1, so that segments leave the window before
\* they were seen; the segments are fetched or marked EXT-X-GAP, and every
\* segment request succeeds.
GapsWorld ==
    Env({ Manifest(200, TRUE, 2, mseq, FALSE, 1, endlist) :
            mseq \in 0..(MaxSeq + 1), endlist \in BOOLEAN },
        { <<ExtInf("a")>>, <<ExtInf("a"), Gap>> }, {1},
        Answers({200}, {"none"}, {TRUE}), {TRUE}, {TRUE})

NextGaps ==
    \/ \E loaded \in BOOLEAN, n \in 0..1 : Start(loaded, n)
    \/ StartReturn
    \/ Poller(1, GapsWorld) \/ Worker(1, GapsWorld)

SpecGaps == InitSingle /\ [][NextGaps]_vars

\* -------------------------------------------------------------- properties
Range(s) == { s[i] : i \in DOMAIN s }

StrictlyIncreasing(s) == \A i, j \in DOMAIN s : i < j => s[i] < s[j]

\* the file reference lines, the BYTERANGE lines and the skipped EXTINF lines
\* of the output playlist of stream r, in order
fileLines(r) == SelectSeq(out[r], LAMBDA l : l.k = "file" /\ l.p = "")

byteRanges(r) == SelectSeq(out[r], LAMBDA l : l.k = "#EXT-X-BYTERANGE" /\ l.p = "")

skippedInfs(r) == SelectSeq(out[r], LAMBDA l : l.k = "#EXTINF" /\ l.p = SkipPrefix)

\* the sum of the sizes of the first n BYTERANGE lines
RECURSIVE sumSizes(_, _)
sumSizes(brs, n) == IF n = 0 THEN 0 ELSE sumSizes(brs, n - 1) + brs[n].x

\* C1: over every sequence of reloads of a stream's playlist, the sequence
\* numbers parseSegments enqueues are strictly increasing, and so are those of
\* the segments the downloader appends to the output playlist, which are among
\* the enqueued ones; with one file per segment the file reference lines of the
\* output playlist name exactly these sequence numbers, in this order.
C1_EmittedStrictlyIncreasing ==
    \A r \in Streams :
        /\ StrictlyIncreasing(hist[r].enqueued)
        /\ StrictlyIncreasing(hist[r].emitted)
        /\ Range(hist[r].emitted) \subseteq Range(hist[r].enqueued)
        /\ ~SingleFile =>
              [i \in 1..Len(fileLines(r)) |-> fileLines(r)[i].x] = hist[r].emitted

\* the playlist was fetched more than once and three segments went through
C1_Witness ==
    /\ hist[1].fetches = 2
    /\ Len(hist[1].enqueued) >= 3
    /\ Len(hist[1].emitted) >= 3
    /\ Len(fileLines(1)) >= 3

\* C2: the stored base playlist.sequence never decreases; and a fetch that
\* reads a manifest whose EXT-X-MEDIA-SEQUENCE is below the stored base ends
\* the poller with a fatal error, the queue closed, nothing of that fetch
\* enqueued and the base unchanged.
C2_DecreasedSequenceIsFatal ==
    [][\A r \in Streams :
          /\ playlist'[r].sequence >= playlist[r].sequence
          /\ (poller[r].pc = "loop" /\ hist'[r].mseq < playlist[r].sequence)
                => /\ poller'[r].pc = "done"
                   /\ playlist'[r].err.fatal
                   /\ ~playlist'[r].active
                   /\ closed'[r]
                   /\ queue'[r] = queue[r]
                   /\ hist'[r].enqueued = hist[r].enqueued
                   /\ playlist'[r].sequence = playlist[r].sequence]_vars

\* the poller ended on a decreased media sequence after it had enqueued segments
C2_Witness ==
    /\ poller[1].pc = "done"
    /\ playlist[1].err = fatal(Err("media sequence number decreased"))
    /\ hist[1].mseq < playlist[1].sequence
    /\ hist[1].enqueued # <<>>

\* every segment requested so far was fetched, and the downloader holds none
settled(r) ==
    /\ worker[r].pc \in {"range", "dumpTail", "done"}
    /\ hist[r].requested = Range(hist[r].emitted)

\* C3: in single-file mode the output playlist holds one EXT-X-BYTERANGE line
\* per fetched segment, the i-th with the size of the i-th body and with the sum
\* of the sizes before it as its offset, and the output file holds the i-th body
\* at that range; when every download succeeded the file's size, the write
\* position and output.offset are the sum of all sizes, and once dump has
\* returned every enqueued segment has its BYTERANGE line or is skipped.
C3_ByteRangesArePrefixSums ==
    \A r \in Streams :
        (SingleFile /\ SingleName \in DOMAIN files[r]) =>
            LET brs == byteRanges(r)
                file == files[r][SingleName]
                total == sumSizes(brs, Len(brs))
            IN  /\ Len(brs) = Len(hist[r].emitted)
                /\ Len(fileLines(r)) = Len(brs)
                /\ \A i \in 1..Len(brs) :
                      /\ brs[i].y = sumSizes(brs, i - 1)
                      /\ brs[i].x >= 1
                      /\ brs[i].y + brs[i].x <= Len(file)
                      /\ \A b \in 1..brs[i].x : file[brs[i].y + b] = hist[r].emitted[i]
                /\ settled(r) =>
                      /\ Len(file) = total
                      /\ output[r].offset = total
                      /\ fpos[r] = total
                /\ (settled(r) /\ worker[r].pc = "done" /\ worker[r].ret = nil) =>
                      Len(brs) + Len(skippedInfs(r)) = Len(hist[r].enqueued)

\* three segments with bodies of different sizes are in the single file
C3_Witness ==
    /\ SingleFile
    /\ worker[1].pc = "done"
    /\ Len(byteRanges(1)) = 3
    /\ byteRanges(1)[1].x # byteRanges(1)[2].x
    /\ byteRanges(1)[3].y = byteRanges(1)[1].x + byteRanges(1)[2].x
    /\ Len(files[1][SingleName]) = output[1].offset

\* a line that marks its segment as one to skip: EXT-X-GAP, or an EXTINF whose
\* title the allow-list does not hold
marksSkipped(l) ==
    \/ l.k = "#EXT-X-GAP"
    \/ l.k = "#EXTINF" /\ Titles # {} /\ l.t \notin Titles

\* C4: a segment whose tag run holds EXT-X-GAP, or whose title is not in the
\* non-empty allow-list, is never requested, and its lines reach the output
\* playlist only behind the skip prefix.
C4_SkippedNeverFetched ==
    \A r \in Streams :
        /\ \A i \in DOMAIN out[r] : marksSkipped(out[r][i]) => out[r][i].p = SkipPrefix
        /\ (\E i \in DOMAIN worker[r].seg.comments : marksSkipped(worker[r].seg.comments[i]))
              => worker[r].seg.sequence \notin hist[r].requested

\* C5: the k-th delay slept for a segment is 64 ms doubled k-1 times, at most
\* 1024 ms.
C5_BackoffStartsAtBase ==
    \A r \in Streams :
        \A k \in DOMAIN hist[r].slept :
            hist[r].slept[k] = shl(BackoffBase, min(k - 1, BackoffShift))

\* C6: the attempt that fetches a segment, after however many failed attempts,
\* leaves the files, the write position, output.offset, output.sequence and the
\* output playlist as fetching it at once would have.
C6_RetryLeavesNoTrace ==
    [][\A r \in Streams :
          (/\ worker[r].pc = "processSegment"
           /\ Len(hist'[r].emitted) = Len(hist[r].emitted) + 1)
          => /\ files'[r] = hist[r].first.files
             /\ fpos'[r] = hist[r].first.fpos
             /\ output'[r].offset = hist[r].first.offset
             /\ output'[r].sequence = hist[r].first.sequence
             /\ out'[r] = hist[r].first.out]_vars

\* in single-file mode a second segment was fetched after two failed attempts
C6_Witness ==
    /\ SingleFile
    /\ worker[1].pc = "range"
    /\ Len(hist[1].slept) = 2
    /\ Len(hist[1].emitted) = 2
    /\ hist[1].first.sequence = hist[1].emitted[2]
    /\ files[1] = hist[1].first.files

\* the per-stream state of every stream but r, and the state the streams share
othersUnchanged(r) ==
    /\ \A q \in Streams \ {r} :
          /\ queue'[q] = queue[q] /\ closed'[q] = closed[q]
          /\ output'[q] = output[q] /\ fpos'[q] = fpos[q] /\ files'[q] = files[q]
          /\ out'[q] = out[q]
          /\ playlist'[q] = playlist[q] /\ poller'[q] = poller[q]
          /\ worker'[q] = worker[q] /\ starter'[q] = starter[q]
    /\ stop' = stop
    /\ dumper' = dumper

\* C7: a segment request answered 404 ends the stream's downloadWorker with a
\* fatal error at once, without a further attempt, and changes nothing of any
\* other stream; a downloadWorker that has returned requests and fetches no
\* segment any more.
C7_NotFoundEndsOnlyItsStream ==
    [][\A r \in Streams :
          /\ \A a \in AllWorld.answers :
                (a.code = 404 /\ downloadSegment(r, a))
                => /\ worker'[r].pc = "dumpTail"
                   /\ worker'[r].err.fatal
                   /\ hist'[r].slept = hist[r].slept
                   /\ hist'[r].emitted = hist[r].emitted
                   /\ othersUnchanged(r)
          /\ worker[r].pc \in {"dumpTail", "done"}
                => /\ worker'[r].pc \in {"dumpTail", "done"}
                   /\ hist'[r].requested = hist[r].requested
                   /\ hist'[r].emitted = hist[r].emitted
                   /\ files'[r] = files[r]]_vars

\* stream 1 has ended on a 404 while stream 2 is fetching a segment
C7_Witness ==
    /\ worker[1].pc \in {"dumpTail", "done"}
    /\ worker[1].err = httpResponseStatusError(404)
    /\ worker[2].pc = "processSegment"
    /\ worker[2].seg.length # 0
    /\ poller[2].pc # "done"

\* C8: when dump has returned and the stream's downloadWorker or its poller
\* ended with a fatal error, dump returned an error, and so did Start.
C8_FatalErrorReachesStart ==
    \A r \in Streams :
        (/\ worker[r].pc = "done"
         /\ \/ worker[r].err.fatal
            \/ poller[r].pc = "done" /\ playlist[r].err.fatal)
        => /\ worker[r].ret # nil
           /\ dumper.pc = "done" => dumper.ret # nil

\* C9: with no stream Start returns errNoStreamsFound; with one it returns what
\* that stream's dump returned; with more it returns after every dump has
\* returned, and returns an error when some dump returned one.
C9_StartAllReturnsAnError ==
    dumper.pc = "done" =>
        /\ streams = 0 => dumper.ret = errNoStreamsFound
        /\ streams = 1 => worker[1].pc = "done" /\ dumper.ret = worker[1].ret
        /\ streams >= 2 =>
              /\ \A r \in 1..streams : worker[r].pc = "done"
              /\ (\E r \in 1..streams : worker[r].ret # nil) => dumper.ret # nil

\* C10: when the first fetch finds a complete VOD playlist, no stop is requested
\* and every segment request succeeds: each segment listed is enqueued; dump
\* returns; and when it has returned it returned nil, the playlist was fetched
\* once, the poller has ended, the queue is closed and empty, and every
\* enqueued segment was fetched or skipped, the fetched ones in order.
C10_CompleteVodIsDumpedOnce ==
    /\ (worker[1].pc = "dump") ~> (worker[1].pc = "done")
    /\ [](worker[1].pc = "done" =>
            /\ worker[1].ret = nil
            /\ hist[1].fetches = 1
            /\ poller[1].pc = "done"
            /\ closed[1] /\ queue[1] = <<>>
            /\ StrictlyIncreasing(hist[1].emitted)
            /\ Range(hist[1].emitted) \subseteq Range(hist[1].enqueued)
            /\ Len(fileLines(1)) = Len(hist[1].emitted)
            /\ Len(hist[1].emitted) + Len(skippedInfs(1)) = Len(hist[1].enqueued)
            /\ out[1][Len(out[1])] = EndList)
    /\ [][(poller[1].pc = "parse" /\ poller[1].segs > 0 /\ poller'[1] # poller[1]) =>
            hist'[1].enqueued = Append(hist[1].enqueued, poller[1].sequence)]_vars

\* Start has returned nil after three segments, some fetched and some skipped
C10_Witness ==
    /\ dumper.pc = "done"
    /\ dumper.ret = nil
    /\ worker[1].pc = "done"
    /\ hist[1].fetches = 1
    /\ Len(hist[1].enqueued) = 3
    /\ Len(hist[1].emitted) >= 1
    /\ Len(skippedInfs(1)) >= 1

\* C11: once Stop has been called, dump and Start return; and when no fatal
\* error occurred (here: none was raised, no manifest was malformed and every
\* poller knew a reload interval, so that no fetch failure ended its loop)
\* Start returns nil.
C11_CleanStopReturnsNil ==
    ( /\ stop
      /\ dumper.pc = "done"
      /\ streams >= 1
      /\ \A r \in 1..streams :
            /\ playlist[r].lastDuration # 0
            /\ ~playlist[r].err.fatal
            /\ playlist[r].err.msg \in {"nil", "status"}
            /\ ~worker[r].err.fatal
            /\ ~worker[r].ret.fatal )
    => dumper.ret = nil

\* the part of C11 that holds: after Stop, Start returns
C11_StopLeadsToReturn == stop ~> dumper.pc = "done"

\* C12: once Stop has marked a rendition inactive, it is never marked active
\* again, so that its poller loop exits, closes the queue and leaves the
\* rendition inactive.
C12_StoppedStaysInactive ==
    [][\A r \in Streams : hist[r].stopped => ~playlist'[r].active]_vars

\* what follows when it is marked active again: the poller that Stop was to
\* end is not certain to exit
C12_StopEndsPoller == \A r \in Streams : hist[r].stopped ~> poller[r].pc = "done"

\* the sequence numbers of the segments in a queue, in order
sequencesOf(c) == [i \in 1..Len(c) |-> c[i].sequence]

\* the sequence number of the segment the downloader of stream r holds
held(r) == IF worker[r].seg = NoSegment THEN <<>> ELSE <<worker[r].seg.sequence>>

\* C13: the queue never holds more than 64 descriptors; the poller waits when
\* it is full; the descriptors leave it in the order they were sent, each one
\* once: what was sent is what was processed, then what the downloader holds,
\* then what is queued.
C13_QueueIsBoundedFifo ==
    \A r \in Streams :
        /\ Len(queue[r]) <= QueueCap
        /\ (Len(queue[r]) = QueueCap /\ poller[r].pc = "parse" /\ poller[r].segs > 0)
              => ~ENABLED parseSegments(r, <<ExtInf("a")>>)
        /\ StrictlyIncreasing(hist[r].enqueued)
        /\ hist[r].enqueued = hist[r].emitted \o held(r) \o sequencesOf(queue[r])

\* the poller waits with the queue full and one more descriptor to send
C13_Witness ==
    /\ Len(queue[1]) = QueueCap
    /\ poller[1].pc = "parse"
    /\ poller[1].segs = 1
    /\ worker[1].pc = "range"

body == Tail(master)

\* line j is taken as the URI of a stream: it is no tag and no comment, and a
\* matching EXT-X-STREAM-INF precedes it with no such line in between
selected(j) ==
    /\ body[j].k = "uri"
    /\ \E k \in 1..(j - 1) :
          /\ body[k].k = "#EXT-X-STREAM-INF"
          /\ \/ Groups = {}
             \/ {body[k].attr.VIDEO, body[k].attr.AUDIO, body[k].attr.SUBTITLES,
                 body[k].attr.CLOSEDCAPTIONS} \cap Groups # {}
          /\ \A l \in (k + 1)..(j - 1) : body[l].k # "uri"

\* the place of line j among the selected lines
rank(j) == Cardinality({ x \in 1..j : selected(x) })

\* C15 as stated, the naming of a single job: when exactly one job results it
\* is named with the configured base name.
C15_SingleJobKeepsBaseName == streams = 1 => jobs[1].name = BaseName

\* C15 as the code has it: parseMaster produces one job for every line that
\* follows a matching EXT-X-STREAM-INF as the next line that is no tag and no
\* comment, in manifest order, and names them base-1 .. base-N, also when N is
\* 1; the base name is used only for the one job of a document that is itself
\* a media playlist.
C15_JobsFollowMatchingEntries ==
    streams # -1 =>
        /\ streams = Len(jobs)
        /\ IF \E j \in DOMAIN body : isMediaTag(body[j].k)
           THEN jobs = <<[name |-> BaseName, url |-> MasterURL]>>
           ELSE /\ Len(jobs) = Cardinality({ j \in DOMAIN body : selected(j) })
                /\ \A j \in DOMAIN body :
                      selected(j) => jobs[rank(j)] = [name |-> rank(j), url |-> body[j].uri]

\* two entries of which the allow-list admits one: one job, named base-1
C15_Witness ==
    /\ Groups = {"hi"}
    /\ master = <<Marker, StreamInf([NoAttr EXCEPT !.AUDIO = "lo"]), Uri("a"),
                  StreamInf([NoAttr EXCEPT !.VIDEO = "hi"]), Uri("b")>>
    /\ jobs = <<[name |-> 1, url |-> "b"]>>
    /\ dumper.pc = "dump"

\* downloadWorker of stream r has returned
returned(r) == worker[r].pc \in {"dumpTail", "done"}

C17_BadMarkerEndsLoop ==
    \A r \in Streams :
        poller[r].err.msg = "does not start with #EXTM3U" => poller[r].pc = "done"

\* C18 as stated: a failure to record a skipped segment is only logged, the
\* downloader goes on to the next descriptor.
C18_SkipFailureIsOnlyLogged ==
    [][\A r \in Streams :
        (worker[r].pc = "processSegment" /\ worker[r].seg.length = 0 /\ worker'[r] # worker[r])
        => worker'[r].pc = "range"]_vars

\* C18 as the code has it: a failure to record a skipped segment is a fatal
\* error that is no client error, and downloadWorker returns it; when the
\* record is written the downloader goes on to the next descriptor.
C18_SkipFailureIsFatal ==
    [][\A r \in Streams :
        (worker[r].pc = "processSegment" /\ worker[r].seg.length = 0 /\ worker'[r] # worker[r])
        => IF playlist'[r].writer = "failed"
           THEN /\ returned(r)'
                /\ worker'[r].err = fatal(Err("write"))
                /\ out'[r] = out[r]
           ELSE /\ worker'[r].pc = "range"
                /\ worker'[r].err = nil
                /\ Len(out'[r]) > Len(out[r])]_vars

\* downloadWorker has returned the failed write of a skipped segment's record,
\* no segment having been requested
C18_Witness ==
    /\ worker[1].pc = "dumpTail"
    /\ worker[1].err = fatal(Err("write"))
    /\ hist[1].requested = {}
    /\ hist[1].enqueued # <<>>

\* the run reads an EXT-X-BYTERANGE with no offset, and none with an offset
omitsOffset(tags) == byteRangesOf(tags) # <<>> /\ ~givesOffset(tags)

\* the poller of stream r reads the run tags of a segment
reads(r, tags) ==
    poller[r].pc = "parse" /\ poller[r].segs > 0 /\ parseSegments(r, tags)

\* the poller of stream r is stopped by errOffsetFirstSegment, nothing sent
rejected(r) ==
    /\ poller'[r].pc = "done"
    /\ playlist'[r].err = fatal(errOffsetFirstSegment)
    /\ closed'[r]
    /\ queue'[r] = queue[r]
    /\ hist'[r].enqueued = hist[r].enqueued

\* C19 as stated: an EXT-X-BYTERANGE with no offset is accepted only on the
\* first segment of the rendition; on any other it is a fatal error.
C19_OmittedOffsetOnlyOnFirstSegment ==
    [][\A r \in Streams : \A tags \in OffsetWorld.entries :
        (reads(r, tags) /\ omitsOffset(tags) /\ hist[r].enqueued # <<>>) => rejected(r)]_vars

\* C19 as the code has it: an EXT-X-BYTERANGE with no offset is accepted when
\* an EXT-X-BYTERANGE read before it in the same fetch has given an offset;
\* otherwise, so on the first segment of every fetch, it yields the fatal
\* errOffsetFirstSegment, and nothing more of that fetch is enqueued.
C19_OmittedOffsetNeedsEarlierOffset ==
    [][\A r \in Streams : \A tags \in OffsetWorld.entries :
        (reads(r, tags) /\ omitsOffset(tags))
        => IF hist[r].given
           THEN /\ poller'[r].pc = "parse"
                /\ ~closed'[r]
                /\ isNew(poller[r].sequence, output[r].qsequence)
                      => hist'[r].enqueued = Append(hist[r].enqueued, poller[r].sequence)
           ELSE rejected(r)]_vars

\* a segment whose EXT-X-BYTERANGE has no offset was accepted after one whose
\* EXT-X-BYTERANGE has an offset
C19_Witness ==
    /\ hist[1].enqueued = <<0, 1>>
    /\ hist[1].given
    /\ hist[1].prev = [offset |-> MaxBody, length |-> MaxBody]
    /\ poller[1].pc = "parse"

\* C20: within one fetch, the offset carried into a segment whose
\* EXT-X-BYTERANGE omits it is the offset of the segment before plus the
\* positive length that segment declares, also when that segment was left out
\* by the title allow-list or marked EXT-X-GAP.
C20_CarriedOffsetFollowsDeclaredLength ==
    [][\A r \in Streams : \A tags \in OffsetWorld.entries :
        ( /\ reads(r, tags)
          /\ omitsOffset(tags)
          /\ hist[r].prev.length > 0
          /\ Len(queue'[r]) > Len(queue[r]) )
        => queue'[r][Len(queue'[r])].offset = hist[r].prev.offset + hist[r].prev.length]_vars

\* the lines the step appends to the output playlist of stream r
appended(r) == SubSeq(out'[r], Len(out[r]) + 1, Len(out'[r]))

\* C21: when the entry of a segment q is appended to the output playlist and
\* the entry appended before it was that of segment p < q, p = 0 included, the
\* comment "# WARNING: Missing sequence p+1-(q-1)" is appended before the
\* entry of q if and only if q > p + 1, and no other such comment is.
C21_EveryGapIsReported ==
    [][\A r \in Streams :
        LET p == hist[r].last
            q == hist'[r].last
            warnings == SelectSeq(appended(r), LAMBDA l : l.k = MissingLine(0, 0).k)
        IN  (p >= 0 /\ p < q)
            => /\ q > p + 1 => appended(r)[1] = MissingLine(p + 1, q - 1)
               /\ warnings = IF q > p + 1 THEN <<MissingLine(p + 1, q - 1)>> ELSE <<>>]_vars

\* the part of C21 that holds: the same for p >= 1
C21_GapAfterNonZeroIsReported ==
    [][\A r \in Streams :
        LET p == hist[r].last
            q == hist'[r].last
            warnings == SelectSeq(appended(r), LAMBDA l : l.k = MissingLine(0, 0).k)
        IN  (p >= 1 /\ p < q)
            => /\ q > p + 1 => appended(r)[1] = MissingLine(p + 1, q - 1)
               /\ warnings = IF q > p + 1 THEN <<MissingLine(p + 1, q - 1)>> ELSE <<>>]_vars

\* a gap after a segment other than 0 was reported
C21_Reported == \E i \in DOMAIN out[1] : out[1][i].k = MissingLine(0, 0).k

\* line j of the master playlist is a tag of a media playlist that parseMaster
\* comes to: no such tag and no tag with an invalid attribute list precedes it
met(j) ==
    /\ isMediaTag(body[j].k)
    /\ \A k \in 1..(j - 1) : ~isMediaTag(body[k].k) /\ body[k].valid

\* the lines before line j that are taken as the URI of a stream
collected(j) == { x \in 1..(j - 1) : selected(x) }

\* C22: a tag of a media playlist that parseMaster comes to before any job was
\* collected ends the resolution with exactly one job, of the URL of the
\* document and of the base name, and dump starts for it; the same tag after a
\* job was collected makes Start fail with errMixedPlaylist; either way the
\* lines after the tag add no job.
C22_MediaTagEndsResolution ==
    ( /\ dumper.pc # "Start"
      /\ dumper.ret # Err("load")
      /\ master # <<>>
      /\ Head(master) = Marker )
    => \A j \in DOMAIN body :
          met(j) =>
             IF collected(j) = {}
             THEN /\ jobs = <<[name |-> BaseName, url |-> MasterURL]>>
                  /\ streams = 1
                  /\ dumper.pc = "dump"
             ELSE /\ dumper = [pc |-> "done", err |-> nil, ret |-> errMixedPlaylist]
                  /\ streams = -1
                  /\ Len(jobs) = Cardinality(collected(j))
                  /\ \A x \in collected(j) :
                        jobs[rank(x)] = [name |-> rank(x), url |-> body[x].uri]

\* a variant stream, then a tag of a media playlist, then a line that would
\* name a second stream: Start has failed with one job collected
C22_Witness ==
    /\ master = <<Marker, StreamInf([NoAttr EXCEPT !.VIDEO = "hi"]), Uri("a"),
                  Inf, Uri("b")>>
    /\ dumper.pc = "done"
    /\ dumper.ret = errMixedPlaylist
    /\ jobs = <<[name |-> 1, url |-> "a"]>>

\* the tag of a media playlist first, then a variant stream: the one job is
\* the document itself
C22_Shortcut ==
    /\ master = <<Marker, TargetDuration, StreamInf([NoAttr EXCEPT !.VIDEO = "hi"]), Uri("a")>>
    /\ dumper.pc = "dump"
    /\ jobs = <<[name |-> BaseName, url |-> MasterURL]>>

\* stream r is about to call downloadSegment, for the first time or again
attempting(r) == worker[r].pc = "processSegment" /\ worker[r].seg.length # 0

\* the step is a call of downloadSegment of stream r that returns an error
attemptFails(r) ==
    /\ attempting(r)
    /\ worker'[r].pc # "processSegment"
    /\ Len(hist'[r].emitted) = Len(hist[r].emitted)

\* in single-file mode, at the start of an attempt: the write position of the
\* output file is output.offset, which is the sum of the sizes in the
\* EXT-X-BYTERANGE lines of the output playlist
cursorInStep(r) ==
    (SingleFile /\ attempting(r))
    => /\ fpos[r] = output[r].offset
       /\ output[r].offset = sumSizes(byteRanges(r), Len(byteRanges(r)))

\* C23 as stated: in single-file mode every attempt starts with the write
\* position at output.offset and output.offset the sum of the sizes written
\* as EXT-X-BYTERANGE so far; and an attempt that fails, for whatever reason,
\* leaves output.offset and the output playlist as they were, with the write
\* position at output.offset unless the error is fatal.
C23_FailedAttemptKeepsCursor ==
    /\ [](\A r \in Streams : cursorInStep(r))
    /\ [][\A r \in Streams :
            (SingleFile /\ attemptFails(r))
            => /\ output'[r].offset = output[r].offset
               /\ out'[r] = out[r]
               /\ fpos'[r] = output[r].offset
                  \/ (worker'[r].err.fatal /\ ~worker'[r].err.client)]_vars

\* C23 as the code has it: the same at the start of every attempt; an attempt
\* that fails before the body is copied whole leaves output.offset and the
\* output playlist as they were, with the write position at output.offset
\* unless the Seek fails, which is fatal; an attempt that copies the body and
\* fails to write the playlist has advanced output.offset and the write
\* position by the size of the body, and is fatal too; after a fatal error that
\* is no client error downloadWorker returns, so that no attempt follows.
C23_FailedTransferKeepsCursor ==
    /\ [](\A r \in Streams : cursorInStep(r))
    /\ [][\A r \in Streams :
            (SingleFile /\ attemptFails(r))
            => LET err == worker'[r].err
                   ended == err.fatal /\ ~err.client
               IN  /\ out'[r] = out[r]
                   /\ err # nil
                   /\ ended => worker'[r].pc = "dumpTail"
                   /\ IF playlist'[r].writer = playlist[r].writer
                      THEN /\ output'[r].offset = output[r].offset
                           /\ fpos'[r] = output[r].offset \/ ended
                      ELSE /\ ended
                           /\ output'[r].offset = output[r].offset + worker[r].body
                           /\ fpos'[r] = output'[r].offset]_vars

\* in single-file mode, after a first segment was fetched, a copy of the second
\* broke off part-way and the file was sought back: the bytes copied lie
\* behind the write position as the next attempt starts
C23_Witness ==
    /\ SingleFile
    /\ attempting(1)
    /\ worker[1].try >= 1
    /\ Len(byteRanges(1)) = 1
    /\ output[1].offset >= 1
    /\ fpos[1] = output[1].offset
    /\ Len(files[1][SingleName]) > output[1].offset

====
